---- MODULE Spec2Model ----
(***************************************************************************)
(* A model of src/libslic3r/SLA/SLASupportTreeIGL.cpp:                     *)
(*   - cluster(): greedy region growing over a removal-based spatial index *)
(*     with the two neighbour queries (distance_queryfn, predicate query); *)
(*   - normals(): the per-point normal resolution with its cancellation    *)
(*     check and its (possibly parallel) dispatch;                         *)
(*   - the sort + std::unique step that collapses duplicate normals.       *)
(* A SpatElement (point, index) is represented by its index: indices are   *)
(* distinct and the point of an element is pointfn[index].                 *)
(***************************************************************************)
EXTENDS Integers, Sequences, FiniteSets, TLC

\* ---------------------------------------------------------------- bounds
\* largest number of input points of a distance-bounded clustering
NumIdx == 3
\* largest number of input points of a predicate-bounded clustering
NumPredIdx == 2
\* points lie at integer positions 0..MaxCoord of the x axis
MaxCoord == 3
\* distance thresholds are the integers 0..MaxDist
MaxDist == 1
\* max_points ranges over 0..MaxCap
MaxCap == 3
\* seed passes that remove nothing are followed this many times
MaxIdlePasses == 2

VARIABLES
    \* ---- cluster()
    variant,      \* "dist" | "pred": which overload built the query function
    indices,      \* the input indices
    pointfn,      \* index -> point
    dist,         \* the distance threshold (variant "dist")
    predicate,    \* the pairwise predicate, as a set of pairs (variant "pred")
    max_points,
    sindex,       \* the elements left in the spatial index
    cluster,      \* the cluster under construction, sorted by index
    clusters,     \* the clusters finished so far
    stack,        \* the activation records of group(): [pts, i]
    newpts,       \* group()'s local newpts of the latest iteration
    c,            \* group()'s local c of the latest iteration
    prev,         \* the cluster as it was before the latest iteration
    frontier,     \* the pts the latest iteration passed to group(), <<>> if none
    idle,         \* seed passes so far that removed nothing from the index
    result,       \* the returned ClusteredPoints
    pc            \* "seed" | "group" | "done" | "aborted"

VARIABLES
    \* ---- normals()
    F,            \* mesh.F(): the faces, each a triple of vertex ids
    hit,          \* per row: the face squared_distance() returns for the row's
                  \* point and the distance tests of lines 312-324 that pass
    iter,         \* per row: where the call proc(ridx) stands
    ret,          \* the PointSet ret, of kind "uninit" where no row was written
    writers,      \* per row of ret: the iterations that wrote it
    thrcalls,     \* per iteration: invocations of thr() so far
    examined,     \* per iteration: faces examined by the neighbour scan so far
    cancelled,    \* some invocation of thr() threw
    outcome       \* "running" | "empty" | "returned" | "aborted"

VARIABLES
    \* ---- the duplicate collapse of normals()
    neighnorms,   \* the vector neighnorms
    lend,         \* the number of elements before std::unique's returned iterator
    mean,         \* the accumulated sum and the count it is divided by
    dpc           \* "sort" | "unique" | "mean" | "done"

cvars == <<variant, indices, pointfn, dist, predicate, max_points, sindex,
           cluster, clusters, stack, newpts, c, prev, frontier, idle, result, pc>>

nvars == <<F, hit, iter, ret, writers, thrcalls, examined, cancelled, outcome>>

dvars == <<neighnorms, lend, mean, dpc>>

vars == <<cvars, nvars, dvars>>

\* ---------------------------------------------------------------- helpers
Min(a, b) == IF a < b THEN a ELSE b

Range(s) == {s[k] : k \in 1..Len(s)}

\* the injective sequences over the set S: the orders a container can yield it in
Perms(S) == {s \in [1..Cardinality(S) -> S] :
                \A i, j \in 1..Cardinality(S) : i # j => s[i] # s[j]}

\* s with x put before the first element greater than x
RECURSIVE InsertSorted(_, _)
InsertSorted(x, s) ==
    IF s = <<>> THEN <<x>>
    ELSE IF x < Head(s) THEN <<x>> \o s
         ELSE <<Head(s)>> \o InsertSorted(x, Tail(s))

\* std::sort(tmp.begin(), tmp.end(), cmp) with cmp comparing the payload index
RECURSIVE SortBySecond(_)
SortBySecond(s) ==
    IF s = <<>> THEN <<>> ELSE InsertSorted(s[Len(s)], SortBySecond(SubSeq(s, 1, Len(s) - 1)))

Points == {<<x, 0, 0>> : x \in 0..MaxCoord}

\* the square of distance(pp1, pp2)
SqDist(a, b) ==
    (b[1] - a[1]) * (b[1] - a[1]) + (b[2] - a[2]) * (b[2] - a[2])
      + (b[3] - a[3]) * (b[3] - a[3])

\* distance(p.first, it->first) > dist
Farther(p, e) == SqDist(pointfn[p], pointfn[e]) > dist * dist

\* bgi::nearest(p.first, k): the sets of k elements of the index nearest to p
\* (fewer when the index is smaller; ties are broken either way)
NearestSets(p, k) ==
    {S \in SUBSET sindex :
        /\ Cardinality(S) = Min(k, Cardinality(sindex))
        /\ \A a \in S, b \in sindex \ S :
              SqDist(pointfn[p], pointfn[a]) <= SqDist(pointfn[p], pointfn[b])}

\* for(it = tmp.begin(); it < tmp.end(); ++it) if(far) it = tmp.erase(it);
\* erase() leaves `it` on the element that followed, and ++it then steps over it
RECURSIVE EraseLoop(_, _, _)
EraseLoop(p, tmp, i) ==
    IF i > Len(tmp) THEN tmp
    ELSE IF Farther(p, tmp[i])
         THEN EraseLoop(p, SubSeq(tmp, 1, i - 1) \o SubSeq(tmp, i + 1, Len(tmp)), i + 1)
         ELSE EraseLoop(p, tmp, i + 1)

\* the loop erases the last element of tmp: erase() returns tmp.end() and ++it
\* steps past it, which is undefined (a checked-iterator build stops there, a
\* plain build leaves the loop)
RECURSIVE StepsPastEnd(_, _, _)
StepsPastEnd(p, tmp, i) ==
    IF i > Len(tmp) THEN FALSE
    ELSE IF Farther(p, tmp[i])
         THEN \/ i = Len(tmp)
              \/ StepsPastEnd(p, SubSeq(tmp, 1, i - 1) \o SubSeq(tmp, i + 1, Len(tmp)), i + 1)
         ELSE StepsPastEnd(p, tmp, i + 1)

\* distance_queryfn(sindex, p, dist, max_points), given the order the query
\* wrote its results in
distance_queryfn(p, order) == EraseLoop(p, order, 1)

\* sidx.query(bgi::satisfies(predicate(p, e))): the elements satisfying it
predicate_query(p) == {e \in sindex : <<p, e>> \in predicate}

\* the results qfn(sindex, p) can return, each in the order it was written
QueryResults(p) ==
    IF variant = "dist"
    THEN {distance_queryfn(p, o) : o \in UNION {Perms(S) : S \in NearestSets(p, max_points)}}
    ELSE Perms(predicate_query(p))

\* a set_difference that subtracts nothing
SetDifferenceKeepAll(tmp, cl) == tmp

\* std::set_difference(tmp, cluster, back_inserter(newpts), cmp) on sorted ranges
SetDifference(tmp, cl) == SelectSeq(tmp, LAMBDA e : e \notin Range(cl))

\* a count that ignores the cap
AdmitCountUncapped(np, cl) == Len(np)

\* int c = max_points && newpts.size() + cluster.size() > max_points ?
\*            int(max_points - cluster.size()) : int(newpts.size());
AdmitCount(np, cl) ==
    IF max_points # 0 /\ Len(np) + Len(cl) > max_points
    THEN max_points - Len(cl) ELSE Len(np)

\* an insertion that takes the last n new points instead of the first n
AdmitHighest(np, cl, n) == SortBySecond(cl \o SubSeq(np, Len(np) - n + 1, Len(np)))

\* cluster.insert(cluster.end(), newpts.begin(), newpts.begin() + c); std::sort
Admit(np, cl, n) == SortBySecond(cl \o SubSeq(np, 1, n))

\* if(!newpts.empty() && (!max_points || cluster.size() < max_points))
ShouldRecurse(np, cl) == np # <<>> /\ (max_points = 0 \/ Len(cl) < max_points)

\* ---------------------------------------------------------------- cluster()
ClusterInputs ==
    \/ /\ variant = "dist"
       /\ \E n \in 0..NumIdx : indices = 0..(n - 1)
       /\ pointfn \in [indices -> Points]
       /\ dist \in 0..MaxDist
       /\ predicate = {}
    \/ /\ variant = "pred"
       /\ \E n \in 0..NumPredIdx : indices = 0..(n - 1)
       /\ pointfn = [i \in indices |-> <<0, 0, 0>>]
       /\ dist = 0
       /\ predicate \in SUBSET (indices \X indices)

\* the variables of normals() and of the duplicate collapse, while unused
NormalsIdle ==
    /\ F = <<>> /\ hit = <<>> /\ iter = <<>> /\ ret = <<>> /\ writers = <<>>
    /\ thrcalls = <<>> /\ examined = <<>> /\ cancelled = FALSE /\ outcome = "idle"

DedupIdle ==
    /\ neighnorms = <<>> /\ lend = 0 /\ mean = <<>> /\ dpc = "idle"

ClusterIdle ==
    /\ variant = "none" /\ indices = {} /\ pointfn = <<>> /\ dist = 0
    /\ predicate = {} /\ max_points = 0 /\ sindex = {} /\ cluster = <<>>
    /\ clusters = <<>> /\ stack = <<>> /\ newpts = <<>> /\ c = 0 /\ prev = <<>>
    /\ frontier = <<>> /\ idle = 0 /\ result = <<>> /\ pc = "idle"

Init ==
    /\ NormalsIdle
    /\ DedupIdle
    /\ ClusterInputs
    /\ max_points \in 0..MaxCap
    /\ sindex = indices
    /\ cluster = <<>>
    /\ clusters = <<>>
    /\ stack = <<>>
    /\ newpts = <<>>
    /\ c = 0
    /\ prev = <<>>
    /\ frontier = <<>>
    /\ idle = 0
    /\ result = <<>>
    /\ pc = "seed"

inputs == <<variant, indices, pointfn, dist, predicate, max_points>>

\* for(auto it = sindex.begin(); it != sindex.end();) { cluster = {}; pts = {*it};
SeedStart ==
    /\ pc = "seed"
    /\ sindex # {}
    /\ idle < MaxIdlePasses
    /\ \E seed \in sindex :
          stack' = << [pts |-> <<seed>>, i |-> 1] >>
    /\ cluster' = <<>>
    /\ newpts' = <<>>
    /\ c' = 0
    /\ prev' = <<>>
    /\ frontier' = <<>>
    /\ pc' = "group"
    /\ UNCHANGED <<nvars, dvars, inputs, sindex, clusters, idle, result>>

\* one iteration of for(auto& p : pts) in group(pts, cluster)
GroupStep ==
    /\ pc = "group"
    /\ stack # <<>>
    /\ LET top == stack[Len(stack)]
       IN  /\ top.i <= Len(top.pts)
           /\ \E raw \in QueryResults(top.pts[top.i]) :
                LET tmp == SortBySecond(raw)
                    np  == SetDifference(tmp, cluster)
                    n   == AdmitCount(np, cluster)
                    cl  == Admit(np, cluster, n)
                    adv == [stack EXCEPT ![Len(stack)].i = top.i + 1]
                IN  /\ newpts' = np
                    /\ c' = n
                    /\ prev' = cluster
                    /\ cluster' = cl
                    /\ frontier' = IF ShouldRecurse(np, cl) THEN np ELSE <<>>
                    /\ stack' = IF ShouldRecurse(np, cl)
                                THEN Append(adv, [pts |-> np, i |-> 1])
                                ELSE adv
    /\ UNCHANGED <<nvars, dvars, inputs, sindex, clusters, idle, result, pc>>

\* the iteration's distance_queryfn steps an iterator past the end of tmp and
\* the build traps it
GroupTrap ==
    /\ pc = "group"
    /\ variant = "dist"
    /\ stack # <<>>
    /\ LET top == stack[Len(stack)]
       IN  /\ top.i <= Len(top.pts)
           /\ \E S \in NearestSets(top.pts[top.i], max_points) :
                \E o \in Perms(S) : StepsPastEnd(top.pts[top.i], o, 1)
    /\ pc' = "aborted"
    /\ UNCHANGED <<nvars, dvars, inputs, sindex, cluster, clusters, stack, newpts, c, prev,
                   frontier, idle, result>>

\* group(pts, cluster) has visited every p of pts and returns to its caller
GroupReturn ==
    /\ pc = "group"
    /\ stack # <<>>
    /\ stack[Len(stack)].i > Len(stack[Len(stack)].pts)
    /\ stack' = SubSeq(stack, 1, Len(stack) - 1)
    /\ UNCHANGED <<nvars, dvars, inputs, sindex, cluster, clusters, newpts, c, prev, frontier,
                   idle, result, pc>>

\* for(auto& c : cluster) sindex.remove(c); it = sindex.begin();
\* clusters.emplace_back(cluster);
SeedFinish ==
    /\ pc = "group"
    /\ stack = <<>>
    /\ sindex' = sindex \ Range(cluster)
    /\ clusters' = Append(clusters, cluster)
    /\ idle' = IF sindex' = sindex THEN idle + 1 ELSE idle
    /\ pc' = "seed"
    /\ UNCHANGED <<nvars, dvars, inputs, cluster, stack, newpts, c, prev, frontier, result>>

\* the seed loop ends (it == sindex.end()); result is built and returned
Return ==
    /\ pc = "seed"
    /\ sindex = {}
    /\ result' = clusters
    /\ pc' = "done"
    /\ UNCHANGED <<nvars, dvars, inputs, sindex, cluster, clusters, stack, newpts, c, prev,
                   frontier, idle>>

Next == SeedStart \/ GroupStep \/ GroupTrap \/ GroupReturn \/ SeedFinish \/ Return

Spec == Init /\ [][Next]_vars

\* ---------------------------------------------------------------- claims on cluster()
\* the positions at which index i occurs in a sequence of clusters
Occurrences(cls, i) ==
    {<<k, j>> \in (1..Len(cls)) \X (0..NumIdx) :
        j \in 1..Len(cls[k]) /\ cls[k][j] = i}

\* the "within distance dist" relation, and the points of S it joins to R
Within(a, b) == ~Farther(a, b)

RECURSIVE ReachFrom(_, _)
ReachFrom(S, R) ==
    LET nxt == R \cup {b \in S : \E a \in R : Within(a, b)}
    IN  IF nxt = R THEN R ELSE ReachFrom(S, nxt)

Connected(S) == \A a \in S : ReachFrom(S, {a}) = S

Components == {ReachFrom(indices, {a}) : a \in indices}

\* the n lowest members of the set S of indices
Lowest(S, n) == {x \in S : Cardinality({y \in S : y < x}) < n}

\* C1: the returned clusters contain every input index exactly once; between
\* two seed passes the finished clusters and the index share the input likewise
PartitionInv ==
    /\ pc = "done" =>
          /\ \A i \in indices : Cardinality(Occurrences(result, i)) = 1
          /\ \A k \in 1..Len(result) : Range(result[k]) \subseteq indices
    /\ pc = "seed" =>
          \A i \in indices :
              Cardinality(Occurrences(clusters, i)) = (IF i \in sindex THEN 0 ELSE 1)

PartitionWitness ==
    /\ pc = "done"
    /\ Cardinality(indices) = 3
    /\ Len(result) = 2
    /\ \E k \in 1..Len(result) : Len(result[k]) = 2

\* C2 (as claimed): every pass of the seed loop removes at least one element
\* from the index
EveryPassRemoves ==
    [][(pc = "group" /\ pc' = "seed") => Cardinality(sindex') < Cardinality(sindex)]_vars

\* C3: for positive max_points the cluster under construction never holds more
\* than max_points elements, nor does a finished or returned cluster
SizeCapInv ==
    max_points > 0 =>
        /\ Len(cluster) <= max_points
        /\ \A k \in 1..Len(clusters) : Len(clusters[k]) <= max_points
        /\ \A k \in 1..Len(result) : Len(result[k]) <= max_points

SizeCapWitness ==
    /\ pc = "group"
    /\ max_points > 0
    /\ c >= 1
    /\ c < Len(newpts)
    /\ Len(cluster) = max_points

\* C4 (as claimed): in distance-bounded clustering any two points of one
\* finished cluster are joined by a chain of points of that cluster, each
\* within dist of the next
ChainConnected ==
    variant = "dist" =>
        \A k \in 1..Len(clusters) : Connected(Range(clusters[k]))

\* C5 (as claimed): with max_points = 0 and a distance threshold the clusters
\* the seed loop produces are exactly the connected components of the input
NoCapComponents ==
    (variant = "dist" /\ max_points = 0) =>
        /\ \A k \in 1..Len(clusters) : Range(clusters[k]) \in Components
        /\ pc = "done" => {Range(result[k]) : k \in 1..Len(result)} = Components

\* what the latest iteration of group() did, whether or not the new neighbours
\* overflowed the cap
Overflow == max_points > 0 /\ Len(newpts) + Len(prev) > max_points

FilledToCap ==
    /\ c = max_points - Len(prev)
    /\ Range(cluster) = Range(prev) \cup Lowest(Range(newpts), c)
    /\ Len(cluster) = max_points
    /\ frontier = <<>>

AdmittedAll ==
    /\ c = Len(newpts)
    /\ Range(cluster) = Range(prev) \cup Range(newpts)
    /\ Len(cluster) = Len(prev) + Len(newpts)

NoAdmissionWhenFull ==
    (max_points > 0 /\ Len(prev) = max_points) => (cluster = prev /\ frontier = <<>>)

\* C10 (as claimed): on overflow exactly the lowest max_points - |cluster| new
\* neighbours are admitted and nothing recurses; otherwise all are admitted and,
\* if there is at least one, they become the next frontier
FillOriginal ==
    /\ Overflow => FilledToCap
    /\ ~Overflow => (AdmittedAll /\ (newpts # <<>> => frontier = newpts))
    /\ NoAdmissionWhenFull

\* C10 (amended): as claimed, except that the new neighbours become the next
\* frontier only if the cluster is still below max_points (or max_points = 0)
FillAmended ==
    /\ Overflow => FilledToCap
    /\ ~Overflow =>
          /\ AdmittedAll
          /\ frontier = (IF newpts # <<>> /\ (max_points = 0 \/ Len(cluster) < max_points)
                         THEN newpts ELSE <<>>)
    /\ NoAdmissionWhenFull

FillWitness ==
    /\ pc = "group"
    /\ variant = "pred"
    /\ Overflow
    /\ c >= 1
    /\ c < Len(newpts)
    /\ frontier = <<>>

\* ---------------------------------------------------------------- normals()
\* largest number of query points of a batch
MaxBatch == 2

\* the meshes normals() is run on: no face, one face, two faces sharing an
\* edge, two faces sharing one vertex
Meshes ==
    { <<>>,
      << <<0, 1, 2>> >>,
      << <<0, 1, 2>>, <<0, 2, 3>> >>,
      << <<0, 1, 2>>, <<2, 3, 4>> >> }

\* which of the tests of lines 312-324 pass for a closest point: none (face
\* interior), one edge line, or a vertex together with the two edge lines
\* through it
TestOutcomes ==
    { {}, {"e12"}, {"e23"}, {"e13"},
      {"v1", "e12", "e13"}, {"v2", "e12", "e23"}, {"v3", "e23", "e13"} }

\* int ia = -1, ib = -1, ic = -1; followed by the if / else-if chain
Classify(tests, trindex) ==
    IF "v1" \in tests THEN [ia |-> -1, ib |-> -1, ic |-> trindex[1]]
    ELSE IF "v2" \in tests THEN [ia |-> -1, ib |-> -1, ic |-> trindex[2]]
    ELSE IF "v3" \in tests THEN [ia |-> -1, ib |-> -1, ic |-> trindex[3]]
    ELSE IF "e12" \in tests THEN [ia |-> trindex[1], ib |-> trindex[2], ic |-> -1]
    ELSE IF "e23" \in tests THEN [ia |-> trindex[2], ib |-> trindex[3], ic |-> -1]
    ELSE IF "e13" \in tests THEN [ia |-> trindex[1], ib |-> trindex[3], ic |-> -1]
    ELSE [ia |-> -1, ib |-> -1, ic |-> -1]

\* if (ic >= 0) ... else if (ia >= 0 && ib >= 0): one of the two scans runs
Scans(m) == m.ic >= 0 \/ (m.ia >= 0 /\ m.ib >= 0)

\* a test that looks for the vertex only in the first slot of the face
IsNeighbourFirstSlot(m, ni) ==
    IF m.ic >= 0 THEN ni[1] = m.ic
    ELSE ni[1] = m.ia /\ ni[2] = m.ib

\* the test that puts the face ni into neigh, in either scan
IsNeighbour(m, ni) ==
    IF m.ic >= 0
    THEN ni[1] = m.ic \/ ni[2] = m.ic \/ ni[3] = m.ic
    ELSE /\ (ni[1] = m.ia \/ ni[2] = m.ia \/ ni[3] = m.ia)
         /\ (ni[1] = m.ib \/ ni[2] = m.ib \/ ni[3] = m.ib)

\* the row's value: U.cross(V) of the hit face when neigh is empty, else the
\* mean of the collapsed unit normals of the faces of neigh (a function of neigh)
RowValue(r, neigh) ==
    IF neigh = <<>> THEN [kind |-> "cross", face |-> F[hit[r].faceid]]
    ELSE [kind |-> "mean", faces |-> neigh]

\* a proc that writes every result into the first row
RowOfFirst(ridx) == 1

\* ret.row(long(ridx)): the row proc(ridx) writes
RowOf(ridx) == ridx

Rows == 1..Len(hit)

\* the face ids squared_distance() can return: a face of the mesh (m_aabb is
\* built by every constructor that sets faces); 0 stands for no face
FaceIds == IF F = <<>> THEN {0} ELSE 1..Len(F)

InFlight(r) == iter[r].st \in {"scan", "write"}

\* a dispatch that returns ret once no iteration is running, thrown or not
ReturnsDespiteThrow == \A r \in Rows : ~InFlight(r)

\* parallel_for / proc(0) came back without an exception: every iteration ran
\* to its end and none threw
ReturnsNormally == ~cancelled /\ \A r \in Rows : iter[r].st = "done"

NormalsInit ==
    /\ ClusterIdle
    /\ DedupIdle
    /\ F \in Meshes
    /\ \E n \in 0..MaxBatch :
          hit \in [1..n -> [faceid : FaceIds, tests : TestOutcomes]]
    /\ iter = [r \in Rows |-> [st |-> "todo", n |-> 0, neigh |-> <<>>]]
    /\ ret = [r \in Rows |-> [kind |-> "uninit"]]
    /\ writers = [r \in Rows |-> {}]
    /\ thrcalls = [r \in Rows |-> 0]
    /\ examined = [r \in Rows |-> 0]
    /\ cancelled = FALSE
    /\ outcome = "start"

\* if(pt_indices.size() == 0 || mesh.V().rows() == 0 || mesh.F().rows() == 0)
\*     return {};   otherwise ret is allocated and the iterations are dispatched
Enter ==
    /\ outcome = "start"
    /\ outcome' = IF Len(hit) = 0 \/ Len(F) = 0 THEN "empty" ELSE "running"
    /\ UNCHANGED <<cvars, dvars, F, hit, iter, ret, writers, thrcalls, examined,
                   cancelled>>

\* proc(ridx) starts: thr(), then squared_distance and the classification
Start(r) ==
    /\ outcome = "running"
    /\ iter[r].st = "todo"
    /\ thrcalls' = [thrcalls EXCEPT ![r] = @ + 1]
    /\ \/ /\ cancelled' = TRUE
          /\ iter' = [iter EXCEPT ![r].st = "thrown"]
       \/ /\ cancelled' = cancelled
          /\ iter' = [iter EXCEPT ![r].st =
                        IF Scans(Classify(hit[r].tests, F[hit[r].faceid]))
                        THEN "scan" ELSE "write"]
    /\ UNCHANGED <<cvars, dvars, F, hit, ret, writers, examined, outcome>>

\* one pass of for (int n = 0; n < mesh.F().rows(); ++n): thr(), then the test
ScanFace(r) ==
    /\ outcome = "running"
    /\ iter[r].st = "scan"
    /\ iter[r].n < Len(F)
    /\ thrcalls' = [thrcalls EXCEPT ![r] = @ + 1]
    /\ \/ /\ cancelled' = TRUE
          /\ iter' = [iter EXCEPT ![r] = [st |-> "thrown", n |-> 0, neigh |-> <<>>]]
          /\ UNCHANGED examined
       \/ /\ cancelled' = cancelled
          /\ examined' = [examined EXCEPT ![r] = @ + 1]
          /\ LET ni == F[iter[r].n + 1]
                 m  == Classify(hit[r].tests, F[hit[r].faceid])
             IN  iter' = [iter EXCEPT ![r].n = @ + 1,
                                      ![r].neigh = IF IsNeighbour(m, ni)
                                                   THEN Append(@, ni) ELSE @]
    /\ UNCHANGED <<cvars, dvars, F, hit, ret, writers, outcome>>

\* the scan loop ends
ScanEnd(r) ==
    /\ outcome = "running"
    /\ iter[r].st = "scan"
    /\ iter[r].n = Len(F)
    /\ iter' = [iter EXCEPT ![r].st = "write"]
    /\ UNCHANGED <<cvars, dvars, F, hit, ret, writers, thrcalls, examined,
                   cancelled, outcome>>

\* ret.row(long(ridx)) = ...; in either branch, and proc returns
WriteRow(r) ==
    /\ outcome = "running"
    /\ iter[r].st = "write"
    /\ ret' = [ret EXCEPT ![RowOf(r)] = RowValue(r, iter[r].neigh)]
    /\ writers' = [writers EXCEPT ![RowOf(r)] = @ \cup {r}]
    /\ iter' = [iter EXCEPT ![r] = [st |-> "done", n |-> 0, neigh |-> <<>>]]
    /\ UNCHANGED <<cvars, dvars, F, hit, thrcalls, examined, cancelled, outcome>>

\* return ret;
ReturnRet ==
    /\ outcome = "running"
    /\ ReturnsNormally
    /\ outcome' = "returned"
    /\ UNCHANGED <<cvars, dvars, F, hit, iter, ret, writers, thrcalls, examined,
                   cancelled>>

\* the exception of thr() leaves normals(): at once from proc(0), from
\* parallel_for once the iterations that are running have ended
Propagate ==
    /\ outcome = "running"
    /\ cancelled
    /\ \A r \in Rows : ~InFlight(r)
    /\ outcome' = "aborted"
    /\ UNCHANGED <<cvars, dvars, F, hit, iter, ret, writers, thrcalls, examined,
                   cancelled>>

\* proc(0) alone runs when the batch has one point; parallel_for runs the
\* iterations in any order and interleaving otherwise
NormalsNext ==
    \/ Enter
    \/ \E r \in Rows : Start(r)
    \/ \E r \in Rows : ScanFace(r)
    \/ \E r \in Rows : ScanEnd(r)
    \/ \E r \in Rows : WriteRow(r)
    \/ ReturnRet
    \/ Propagate

SpecNormals == NormalsInit /\ [][NormalsNext]_vars

\* ---------------------------------------------------------------- claims on normals()
\* the neighbour faces a sequential scan of F collects for row r
SeqNeigh(r) ==
    LET m == Classify(hit[r].tests, F[hit[r].faceid])
    IN  IF Scans(m) THEN SelectSeq(F, LAMBDA ni : IsNeighbour(m, ni)) ELSE <<>>

\* the matrix that running proc(0), proc(1), ... in index order produces
SeqRet == [r \in Rows |-> RowValue(r, SeqNeigh(r))]

Degenerate(r) == hit[r].tests # {}

\* C6: thr() is invoked at the start of every iteration and before each face
\* the scan examines, and once an invocation has thrown normals() never
\* returns a matrix: it ends aborted
CancellationInv ==
    /\ \A r \in Rows :
          /\ iter[r].st = "todo" => (thrcalls[r] = 0 /\ examined[r] = 0)
          /\ iter[r].st \in {"scan", "write", "done"} => thrcalls[r] = 1 + examined[r]
          /\ iter[r].st = "thrown" => thrcalls[r] \in {examined[r] + 1, examined[r] + 2}
          /\ (iter[r].st = "done" /\ Degenerate(r)) => examined[r] = Len(F)
    /\ (cancelled <=> (\E r \in Rows : iter[r].st = "thrown"))
    /\ cancelled => outcome \in {"running", "aborted"}
    /\ (outcome = "running" /\ cancelled /\ \A r \in Rows : ~InFlight(r))
          => ENABLED Propagate

CancellationWitness ==
    /\ outcome = "aborted"
    /\ \E r, q \in Rows :
          /\ iter[r].st = "thrown" /\ examined[r] = 1
          /\ iter[q].st = "done" /\ ret[q].kind # "uninit"

\* C7: every iteration writes its own row only, and the returned matrix is the
\* one the iterations produce when run one after the other in index order
ParallelInv ==
    /\ \A r \in Rows : writers[r] \subseteq {r}
    /\ \A r \in Rows : ret[r].kind # "uninit" => ret[r] = SeqRet[r]
    /\ outcome = "returned" => ret = SeqRet

ParallelWitness ==
    /\ outcome = "returned"
    /\ Len(hit) = 2
    /\ ret[1] # ret[2]
    /\ ret[1].kind = "mean"
    /\ Len(ret[1].faces) = 2

\* C9: a point classified on a vertex or an edge of its hit face finds at
\* least that face in the scan, so the cross-product fallback is written only
\* for face-interior points and the mean is taken over at least one normal
DegenerateInv ==
    \A r \in Rows :
        /\ (iter[r].st = "write" /\ Degenerate(r)) =>
              \E k \in 1..Len(iter[r].neigh) : iter[r].neigh[k] = F[hit[r].faceid]
        /\ ret[r].kind # "uninit" =>
              /\ (ret[r].kind = "cross") <=> ~Degenerate(r)
              /\ ret[r].kind = "mean" => Len(ret[r].faces) >= 1

DegenerateWitness ==
    \E r \in Rows :
        /\ iter[r].st = "done"
        /\ hit[r].tests = {"e23"}
        /\ ret[r].kind # "uninit"
        /\ ret[r].kind = "mean"
        /\ Len(ret[r].faces) = 1
        /\ Len(F) = 2

\* ---------------------------------------------------------------- the duplicate collapse
\* largest number of neighbour faces whose normals are collapsed
MaxNeigh == 3

\* deq's tolerance 1e-3, in the unit of the coordinates below (0.0005)
Tolerance == 2

\* unit normals, coordinates in units of 0.0005: the three axes (equal
\* coordinate sums), and two normals next to the x axis, each within the
\* tolerance of its neighbour
NormalPool ==
    { <<2000, 0, 0>>, <<0, 2000, 0>>, <<0, 0, 2000>>,
      <<2000, 1, 0>>, <<2000, 2, 0>> }

Abs(x) == IF x < 0 THEN -x ELSE x

\* v.sum()
CoordSum(v) == v[1] + v[2] + v[3]

\* the std::unique predicate: deq on X, Y and Z
SameNormal(n1, n2) ==
    /\ Abs(n1[1] - n2[1]) < Tolerance
    /\ Abs(n1[2] - n2[2]) < Tolerance
    /\ Abs(n1[3] - n2[3]) < Tolerance

\* std::sort by v1.sum() < v2.sum(): the orders it may leave s in (elements of
\* equal sum in any order)
SortOutcomes(s) ==
    {[k \in 1..Len(s) |-> s[q[k]]] : q \in
        {q \in Perms(1..Len(s)) :
            \A k \in 1..(Len(s) - 1) : CoordSum(s[q[k]]) <= CoordSum(s[q[k + 1]])}}

\* std::unique: an element is kept unless the predicate holds of the last
\* element kept and it
RECURSIVE UniqueFrom(_, _)
UniqueFrom(kept, rest) ==
    IF rest = <<>> THEN kept
    ELSE IF SameNormal(kept[Len(kept)], Head(rest))
         THEN UniqueFrom(kept, Tail(rest))
         ELSE UniqueFrom(Append(kept, Head(rest)), Tail(rest))

Unique(s) == IF s = <<>> THEN <<>> ELSE UniqueFrom(<<Head(s)>>, Tail(s))

\* std::accumulate(neighnorms.begin(), lend, Vec3d::Zero())
RECURSIVE Accumulate(_, _)
Accumulate(s, n) ==
    IF n = 0 THEN <<0, 0, 0>>
    ELSE LET a == Accumulate(s, n - 1)
         IN  <<a[1] + s[n][1], a[2] + s[n][2], a[3] + s[n][3]>>

DedupInit ==
    /\ ClusterIdle
    /\ NormalsIdle
    /\ \E n \in 1..MaxNeigh : neighnorms \in [1..n -> NormalPool]
    /\ lend = 0
    /\ mean = <<>>
    /\ dpc = "sort"

SortNormals ==
    /\ dpc = "sort"
    /\ neighnorms' \in SortOutcomes(neighnorms)
    /\ dpc' = "unique"
    /\ UNCHANGED <<cvars, nvars, lend, mean>>

UniqueNormals ==
    /\ dpc = "unique"
    /\ LET u == Unique(neighnorms)
       IN  /\ neighnorms' = u \o SubSeq(neighnorms, Len(u) + 1, Len(neighnorms))
           /\ lend' = Len(u)
    /\ dpc' = "mean"
    /\ UNCHANGED <<cvars, nvars, mean>>

\* ret.row(ridx) = accumulate(...) / (lend - neighnorms.begin())
MeanNormal ==
    /\ dpc = "mean"
    /\ mean' = [sum |-> Accumulate(neighnorms, lend), count |-> lend]
    /\ dpc' = "done"
    /\ UNCHANGED <<cvars, nvars, neighnorms, lend>>

DedupNext == SortNormals \/ UniqueNormals \/ MeanNormal

SpecDedup == DedupInit /\ [][DedupNext]_vars

\* C8 (as claimed): after the sort and std::unique no two surviving normals
\* are duplicates of each other
NoDuplicateSurvives ==
    dpc \in {"mean", "done"} =>
        \A i, j \in 1..lend : i # j => ~SameNormal(neighnorms[i], neighnorms[j])
====
